---- MODULE Spec2Model ----
(***************************************************************************)
(* Model of src/src/App.jsx, the ResponsiveAdPreview component.            *)
(*                                                                         *)
(* A JavaScript string is modelled as the sequence of its UTF-16 code      *)
(* units, each code unit a one-character TLA+ string; a code unit with no  *)
(* such string is the token "U+hhhh" (U+2026, U+2014, U+00A0, ...).        *)
(* Indices of the JavaScript operations (slice, lastIndexOf, array         *)
(* subscripts) are 0-based as in the source; the sequences are 1-based.    *)
(*                                                                         *)
(* Two specifications:                                                     *)
(*   Spec          the component: its useState cells and its event         *)
(*                 handlers; what is rendered is a function of the state.  *)
(*   SpecTruncate  the helper truncate on its own, called on every text    *)
(*                 and limit of a bounded set, then called again on its    *)
(*                 own result.                                             *)
(***************************************************************************)
EXTENDS Integers, Sequences, FiniteSets, TLC

VARIABLES headlines, descriptions, path1, path2, device, showAllHeadlines,
          text, limit, out1, out2, pc

uiVars == <<headlines, descriptions, path1, path2, device, showAllHeadlines>>
callVars == <<text, limit, out1, out2, pc>>
vars == <<headlines, descriptions, path1, path2, device, showAllHeadlines,
          text, limit, out1, out2, pc>>

-----------------------------------------------------------------------------
(* Characters and literals *)

Ellipsis == "U+2026"
EmDash == "U+2014"

\* The code units String.prototype.trim strips: ECMAScript's WhiteSpace
\* (TAB, VT, FF, ZWNBSP and the space separators of category Zs) and
\* LineTerminator (LF, CR, LS, PS).  A code unit with no one-character TLA+
\* string is the token "U+" followed by its four hexadecimal digits.
WhiteSpace ==
  {"\t", "U+000B", "\f", " ", "U+00A0", "U+FEFF",
   "U+1680", "U+2000", "U+2001", "U+2002", "U+2003", "U+2004", "U+2005",
   "U+2006", "U+2007", "U+2008", "U+2009", "U+200A", "U+202F", "U+205F",
   "U+3000",
   "\n", "\r", "U+2028", "U+2029"}

HL_LIMIT == 30
DESC_LIMIT == 90

HeadlinePlaceholder ==
  <<"Y", "o", "u", "r", " ", "h", "e", "a", "d", "l", "i", "n", "e", " ",
    "h", "e", "r", "e">>
DescriptionPlaceholder ==
  <<"Y", "o", "u", "r", " ", "d", "e", "s", "c", "r", "i", "p", "t", "i",
    "o", "n", " ", "w", "i", "l", "l", " ", "a", "p", "p", "e", "a", "r",
    " ", "h", "e", "r", "e", ".">>

HeadlineSeparator == <<" ", EmDash, " ">>
DescriptionSeparator == <<" ">>

ExampleHeadlines ==
  << <<"B", "u", "y", " ", "n", "o", "w">>,
     <<"F", "r", "e", "e", " ", "s", "h", "i", "p", "p", "i", "n", "g">>,
     <<"L", "i", "m", "i", "t", "e", "d", " ", "o", "f", "f", "e", "r">> >>
ExampleDescriptions ==
  << <<"S", "h", "o", "p", " ", "o", "u", "r", " ", "t", "o", "p", " ", "p",
       "r", "o", "d", "u", "c", "t", "s", " ", "w", "i", "t", "h", " ", "f",
       "a", "s", "t", " ", "d", "e", "l", "i", "v", "e", "r", "y", ".">>,
     <<"L", "i", "m", "i", "t", "e", "d", " ", "t", "i", "m", "e", " ",
       EmDash, " ", "g", "r", "e", "a", "t", " ", "p", "r", "i", "c", "e",
       "s", ".">> >>
ExamplePath1 == <<"d", "e", "a", "l", "s">>
ExamplePath2 == <<"s", "a", "l", "e">>

Devices == {"desktop", "tablet", "mobile"}

-----------------------------------------------------------------------------
(* String and array primitives of JavaScript the program calls *)

Min(a, b) == IF a <= b THEN a ELSE b
Max(a, b) == IF a >= b THEN a ELSE b

\* s.slice(start, end): a negative index counts from the end, both are
\* clamped to 0..s.length, and the result is empty when end <= start.
slice(s, start, end) ==
  LET n == Len(s)
      from == IF start < 0 THEN Max(n + start, 0) ELSE Min(start, n)
      to == IF end < 0 THEN Max(n + end, 0) ELSE Min(end, n)
  IN SubSeq(s, from + 1, to)

\* s.lastIndexOf(ch): 0-based index of the last occurrence, -1 if none.
RECURSIVE lastIndexFrom(_, _, _)
lastIndexFrom(s, ch, i) ==
  IF i < 0 THEN -1
  ELSE IF s[i + 1] = ch THEN i
  ELSE lastIndexFrom(s, ch, i - 1)

lastIndexOf(s, ch) == lastIndexFrom(s, ch, Len(s) - 1)

\* Math.floor(limit * 0.5), for an integer limit.
floorHalf(n) == n \div 2

\* s.trim(): strips white space from both ends.
RECURSIVE trimStart(_)
trimStart(s) ==
  IF Len(s) > 0 /\ s[1] \in WhiteSpace THEN trimStart(Tail(s)) ELSE s

RECURSIVE trimEnd(_)
trimEnd(s) ==
  IF Len(s) > 0 /\ s[Len(s)] \in WhiteSpace
  THEN trimEnd(SubSeq(s, 1, Len(s) - 1)) ELSE s

trim(s) == trimEnd(trimStart(s))

\* arr.join(sep): the elements in order, sep between neighbours.
RECURSIVE join(_, _)
join(arr, sep) ==
  IF Len(arr) = 0 THEN <<>>
  ELSE IF Len(arr) = 1 THEN arr[1]
  ELSE arr[1] \o sep \o join(Tail(arr), sep)

\* const copy = [...arr]; copy[idx] = value  (an index equal to the length
\* appends; the handlers never pass a larger one).
arraySet(arr, idx, value) ==
  IF idx < Len(arr) THEN [arr EXCEPT ![idx + 1] = value]
  ELSE Append(arr, value)

-----------------------------------------------------------------------------
(* truncate *)

\* Variants of truncate, each with one slip, used to show that the properties
\* below depend on the corresponding line of the code.

\* clips at limit instead of limit - 1
truncate_clipAtLimit(t, lim) ==
  IF Len(t) = 0 THEN <<>>
  ELSE IF Len(t) <= lim THEN t
  ELSE LET clipped == slice(t, 0, lim)
           lastSpace == lastIndexOf(clipped, " ")
       IN IF lastSpace > floorHalf(lim)
          THEN slice(clipped, 0, lastSpace) \o <<Ellipsis>>
          ELSE clipped \o <<Ellipsis>>

\* text.length < limit instead of <=
truncate_strictLess(t, lim) ==
  IF Len(t) = 0 THEN <<>>
  ELSE IF Len(t) < lim THEN t
  ELSE LET clipped == slice(t, 0, lim - 1)
           lastSpace == lastIndexOf(clipped, " ")
       IN IF lastSpace > floorHalf(lim)
          THEN slice(clipped, 0, lastSpace) \o <<Ellipsis>>
          ELSE clipped \o <<Ellipsis>>

\* lastSpace >= midpoint instead of >
truncate_midpointInclusive(t, lim) ==
  IF Len(t) = 0 THEN <<>>
  ELSE IF Len(t) <= lim THEN t
  ELSE LET clipped == slice(t, 0, lim - 1)
           lastSpace == lastIndexOf(clipped, " ")
       IN IF lastSpace >= floorHalf(lim)
          THEN slice(clipped, 0, lastSpace) \o <<Ellipsis>>
          ELSE clipped \o <<Ellipsis>>

\* the text.length <= limit return left out
truncate_noLengthGuard(t, lim) ==
  IF Len(t) = 0 THEN <<>>
  ELSE LET clipped == slice(t, 0, lim - 1)
           lastSpace == lastIndexOf(clipped, " ")
       IN IF lastSpace > floorHalf(lim)
          THEN slice(clipped, 0, lastSpace) \o <<Ellipsis>>
          ELSE clipped \o <<Ellipsis>>

\* three full stops instead of the one-character ellipsis
truncate_threeDots(t, lim) ==
  IF Len(t) = 0 THEN <<>>
  ELSE IF Len(t) <= lim THEN t
  ELSE LET clipped == slice(t, 0, lim - 1)
           lastSpace == lastIndexOf(clipped, " ")
       IN IF lastSpace > floorHalf(lim)
          THEN slice(clipped, 0, lastSpace) \o <<".", ".", ".">>
          ELSE clipped \o <<".", ".", ".">>

truncate(t, lim) ==
  IF Len(t) = 0 THEN <<>>
  ELSE IF Len(t) <= lim THEN t
  ELSE LET clipped == slice(t, 0, lim - 1)
           lastSpace == lastIndexOf(clipped, " ")
       IN IF lastSpace > floorHalf(lim)
          THEN slice(clipped, 0, lastSpace) \o <<Ellipsis>>
          ELSE clipped \o <<Ellipsis>>

-----------------------------------------------------------------------------
(* Preview composition: what the component renders from its state *)

nonEmptyOf(arr) == SelectSeq(arr, LAMBDA s : Len(trim(s)) > 0)

\* joins with " | " (the separator the source's comment names)
getPreviewHeadline_pipeSeparator ==
  LET nonEmpty == nonEmptyOf(headlines)
  IN IF Len(nonEmpty) = 0 THEN HeadlinePlaceholder
     ELSE truncate(join(nonEmpty, <<" ", "|", " ">>), HL_LIMIT * 2 + 15)

getPreviewHeadline ==
  LET nonEmpty == nonEmptyOf(headlines)
  IN IF Len(nonEmpty) = 0 THEN HeadlinePlaceholder
     ELSE truncate(join(nonEmpty, HeadlineSeparator), HL_LIMIT * 2 + 15)

\* filters on d.length > 0, without trim
getPreviewDescription_untrimmedFilter ==
  LET nonEmpty == SelectSeq(descriptions, LAMBDA s : Len(s) > 0)
  IN IF Len(nonEmpty) = 0 THEN DescriptionPlaceholder
     ELSE truncate(join(nonEmpty, DescriptionSeparator), DESC_LIMIT)

getPreviewDescription ==
  LET nonEmpty == nonEmptyOf(descriptions)
  IN IF Len(nonEmpty) = 0 THEN DescriptionPlaceholder
     ELSE truncate(join(nonEmpty, DescriptionSeparator), DESC_LIMIT)

\* single-headline mode showing the first non-empty headline, not slot 0
renderHeadline_firstNonEmpty ==
  IF showAllHeadlines THEN getPreviewHeadline
  ELSE LET nonEmpty == nonEmptyOf(headlines)
       IN truncate(IF Len(nonEmpty) > 0 THEN nonEmpty[1]
                   ELSE HeadlinePlaceholder, HL_LIMIT)

\* The headline <span>: the ternary on showAllHeadlines.
renderHeadline ==
  IF showAllHeadlines THEN getPreviewHeadline
  ELSE truncate(IF Len(headlines[1]) > 0 THEN headlines[1]
                ELSE HeadlinePlaceholder, HL_LIMIT)

\* The description <p>.
renderDescription == getPreviewDescription

\* The red "Over 30 chars - will be truncated." note under headline i (0-based).
headlineWarning(i) == Len(headlines[i + 1]) > HL_LIMIT

-----------------------------------------------------------------------------
(* Inputs *)

MaxWords == 3
ShortWord == 12
LongWord == 80

RECURSIVE Rep(_, _)
Rep(ch, n) == IF n <= 0 THEN <<>> ELSE <<ch>> \o Rep(ch, n - 1)

\* k words of w letters each, one space between neighbours.
RECURSIVE Words(_, _)
Words(k, w) ==
  IF k <= 1 THEN Rep("a", w) ELSE Rep("a", w) \o <<" ">> \o Words(k - 1, w)

\* white space only: a space, a no-break space, a carriage return, a tab
Blank == <<" ", "U+00A0", "\r", "\t">>

\* MaxWords words between a leading and a trailing space
Padded == <<" ">> \o Words(MaxWords, ShortWord) \o <<" ">>

\* What the user types into a headline input: nothing, white space only, a
\* padded phrase over the headline limit, one long word over every limit.
\* Short texts come from the example.
HeadlineInputs == {<<>>, Blank, Padded, Words(1, LongWord)}

DescriptionInputs == {<<>>, Blank, Words(1, LongWord)}

PathInputs == {<<>>}

-----------------------------------------------------------------------------
(* The component: state after the first render, and its handlers *)

NoCall ==
  /\ text = <<>>
  /\ limit = 1
  /\ out1 = <<>>
  /\ out2 = <<>>
  /\ pc = "idle"

Mounted ==
  /\ headlines = << <<>>, <<>>, <<>> >>
  /\ descriptions = << <<>>, <<>> >>
  /\ path1 = <<>>
  /\ path2 = <<>>
  /\ device = "desktop"
  /\ showAllHeadlines = TRUE

Init == Mounted /\ NoCall

\* writes the slot after the one edited
setHeadline_nextSlot(idx, value) == arraySet(headlines, idx + 1, value)

setHeadline(idx, value) == arraySet(headlines, idx, value)

setDescription(idx, value) == arraySet(descriptions, idx, value)

\* onChange of headline input i
onChangeHeadline(i, value) ==
  /\ headlines' = setHeadline(i, value)
  /\ UNCHANGED <<descriptions, path1, path2, device, showAllHeadlines>>
  /\ UNCHANGED callVars

\* onChange of description textarea i
onChangeDescription(i, value) ==
  /\ descriptions' = setDescription(i, value)
  /\ UNCHANGED <<headlines, path1, path2, device, showAllHeadlines>>
  /\ UNCHANGED callVars

onChangePath1(value) ==
  /\ path1' = value
  /\ UNCHANGED <<headlines, descriptions, path2, device, showAllHeadlines>>
  /\ UNCHANGED callVars

onChangePath2(value) ==
  /\ path2' = value
  /\ UNCHANGED <<headlines, descriptions, path1, device, showAllHeadlines>>
  /\ UNCHANGED callVars

\* The Desktop / Tablet / Mobile buttons
onClickDevice(d) ==
  /\ device' = d
  /\ UNCHANGED <<headlines, descriptions, path1, path2, showAllHeadlines>>
  /\ UNCHANGED callVars

\* The checkbox: a click reports the opposite of the checked state shown.
onChangeShowAll ==
  /\ showAllHeadlines' = ~showAllHeadlines
  /\ UNCHANGED <<headlines, descriptions, path1, path2, device>>
  /\ UNCHANGED callVars

\* The "Load example" button
onClickLoadExample ==
  /\ headlines' = ExampleHeadlines
  /\ descriptions' = ExampleDescriptions
  /\ path1' = ExamplePath1
  /\ path2' = ExamplePath2
  /\ UNCHANGED <<device, showAllHeadlines>>
  /\ UNCHANGED callVars

EditHeadline == \E i \in 0..2, v \in HeadlineInputs : onChangeHeadline(i, v)
EditDescription ==
  \E i \in 0..1, v \in DescriptionInputs : onChangeDescription(i, v)
EditPath1 == \E v \in PathInputs : onChangePath1(v)
EditPath2 == \E v \in PathInputs : onChangePath2(v)
PickDevice == \E d \in Devices : onClickDevice(d)

Next ==
  \/ EditHeadline
  \/ EditDescription
  \/ EditPath1
  \/ EditPath2
  \/ PickDevice
  \/ onChangeShowAll
  \/ onClickLoadExample

Spec == Init /\ [][Next]_vars

-----------------------------------------------------------------------------
(* truncate on its own *)

MaxLen == 7
MaxLimit == 6

TextAlphabet == {"a", " ", Ellipsis}

Texts == UNION {[1..n -> TextAlphabet] : n \in 0..MaxLen}

InitTruncate ==
  /\ Mounted
  /\ text \in Texts
  /\ limit \in 1..MaxLimit
  /\ out1 = <<>>
  /\ out2 = <<>>
  /\ pc = "call"

CallTruncate ==
  /\ pc = "call"
  /\ out1' = truncate(text, limit)
  /\ pc' = "again"
  /\ UNCHANGED <<text, limit, out2>>
  /\ UNCHANGED uiVars

CallTruncateAgain ==
  /\ pc = "again"
  /\ out2' = truncate(out1, limit)
  /\ pc' = "done"
  /\ UNCHANGED <<text, limit, out1>>
  /\ UNCHANGED uiVars

NextTruncate ==
  \/ CallTruncate
  \/ CallTruncateAgain

SpecTruncate == InitTruncate /\ [][NextTruncate]_vars

-----------------------------------------------------------------------------
(* Reference definitions the properties are stated with.  They are written  *)
(* from the wording of the properties, with set comprehension in place of   *)
(* the loops and library calls of the code.                                 *)

\* s has a character that is not white space
HasVisibleChar(s) == \E i \in 1..Len(s) : s[i] \notin WhiteSpace

\* the first n characters of s
Prefix(s, n) == [i \in 1..Min(n, Len(s)) |-> s[i]]

\* 0-based index of the last space of s, or -1
LastSpace(s) ==
  LET at == {i \in 0..(Len(s) - 1) : s[i + 1] = " "}
  IN IF at = {} THEN -1 ELSE CHOOSE i \in at : \A j \in at : j <= i

\* the clipped-and-marked form of a text longer than lim
ClippedAndMarked(s, lim) ==
  LET clipped == Prefix(s, lim - 1)
      sp == LastSpace(clipped)
  IN IF sp > lim \div 2 THEN Prefix(clipped, sp) \o <<Ellipsis>>
     ELSE clipped \o <<Ellipsis>>

\* the truncation of s at lim, as the contract of truncate states it
Truncated(s, lim) == IF Len(s) <= lim THEN s ELSE ClippedAndMarked(s, lim)

\* the slots of arr (1-based) whose trimmed form is non-empty
KeptSlots(arr) == {i \in 1..Len(arr) : HasVisibleChar(arr[i])}

\* the kept slots among the first n, as entered, in slot order, sep between
RECURSIVE JoinedKept(_, _, _)
JoinedKept(arr, sep, n) ==
  IF n = 0 THEN <<>>
  ELSE IF n \notin KeptSlots(arr) THEN JoinedKept(arr, sep, n - 1)
  ELSE IF \E j \in KeptSlots(arr) : j < n
       THEN JoinedKept(arr, sep, n - 1) \o sep \o arr[n]
       ELSE arr[n]

\* sub occurs in s as a run of consecutive characters
Contains(s, sub) ==
  \E k \in 0..(Len(s) - Len(sub)) : SubSeq(s, k + 1, k + Len(sub)) = sub

EndsWithEllipsis(s) == Len(s) > 0 /\ s[Len(s)] = Ellipsis

-----------------------------------------------------------------------------
(* Properties of truncate, under SpecTruncate *)

\* C1: a text longer than the limit is returned at most limit characters
\* long, the ellipsis counted as one character.
C1_LongTextWithinLimit ==
  (pc # "call" /\ Len(text) > limit) => Len(out1) <= limit

\* a text longer than the limit was cut hard: limit - 1 characters and the mark
C1_Witness ==
  /\ pc = "again"
  /\ Len(text) > limit
  /\ Len(out1) = limit
  /\ limit > 1

\* C2: a text no longer than the limit, the empty text included, is returned
\* as it is, with no ellipsis appended.
C2_ShortTextUnchanged ==
  (pc # "call" /\ Len(text) <= limit) => out1 = text

\* a non-empty text of exactly limit characters came back unchanged
C2_Witness ==
  /\ pc = "again"
  /\ Len(text) = limit
  /\ out1 = text

\* C3: for a text longer than the limit, with clipped its first limit - 1
\* characters and s the index of the last space of clipped: the result is
\* the first s characters and an ellipsis if s > floor(limit / 2), and all
\* of clipped and an ellipsis otherwise (the ellipsis alone for limit 1).
C3_ClippedAtWordBoundaryOrHard ==
  (pc # "call" /\ Len(text) > limit) =>
     /\ out1 = ClippedAndMarked(text, limit)
     /\ limit = 1 => out1 = <<Ellipsis>>

\* a text was cut at a space past the midpoint
C3_Witness ==
  /\ pc = "again"
  /\ Len(text) > limit
  /\ LastSpace(Prefix(text, limit - 1)) > limit \div 2
  /\ Len(out1) = LastSpace(Prefix(text, limit - 1)) + 1

\* C9: truncating the result of truncate again, at the same limit, returns it
\* unchanged.
C9_Idempotent == pc = "done" => out2 = out1

\* a text was cut and marked, and the second call left the result alone
C9_Witness ==
  /\ pc = "done"
  /\ Len(text) > limit
  /\ out1 # text
  /\ out2 = out1

-----------------------------------------------------------------------------
(* Properties of the component, under Spec *)

\* C4: in show-all mode the headline shown is the placeholder if no headline
\* has a non-empty trimmed form, and otherwise the truncation at 2*30+15 = 75
\* of the headlines with a non-empty trimmed form, as entered and in slot
\* order, joined with " - " (an em dash between two spaces).
C4_ShowAllHeadline ==
  showAllHeadlines =>
    renderHeadline =
      IF KeptSlots(headlines) = {} THEN HeadlinePlaceholder
      ELSE Truncated(JoinedKept(headlines, <<" ", EmDash, " ">>, 3), 75)

\* show-all mode, a white-space-only slot dropped between two kept ones, a kept
\* one with white space at its ends, and the joined text cut at 75
C4_Witness ==
  /\ showAllHeadlines
  /\ KeptSlots(headlines) = {1, 3}
  /\ Len(headlines[2]) > 0
  /\ headlines[1][1] = " "
  /\ Len(JoinedKept(headlines, <<" ", EmDash, " ">>, 3)) > 75
  /\ EndsWithEllipsis(renderHeadline)

\* C5: the description shown is the placeholder if no description has a
\* non-empty trimmed form, and otherwise the truncation at 90 of the
\* descriptions with a non-empty trimmed form, in slot order, joined with one
\* space.
C5_Description ==
  renderDescription =
    IF KeptSlots(descriptions) = {} THEN DescriptionPlaceholder
    ELSE Truncated(JoinedKept(descriptions, <<" ">>, 2), 90)

\* two kept descriptions whose joined text is cut at 90
C5_Witness ==
  /\ KeptSlots(descriptions) = {1, 2}
  /\ Len(JoinedKept(descriptions, <<" ">>, 2)) > 90
  /\ EndsWithEllipsis(renderDescription)

\* C6: in single-headline mode the headline shown is the truncation at 30 of
\* the first slot, or the placeholder when the first slot is empty; slots 2
\* and 3 have no part in it.
C6_SingleHeadline ==
  ~showAllHeadlines =>
    renderHeadline =
      IF headlines[1] = <<>> THEN HeadlinePlaceholder
      ELSE Truncated(headlines[1], 30)

\* single-headline mode, the first slot empty and the other two filled
C6_Witness ==
  /\ ~showAllHeadlines
  /\ headlines[1] = <<>>
  /\ KeptSlots(headlines) = {2, 3}
  /\ renderHeadline = HeadlinePlaceholder

\* C7: every preview string shown, placeholders included, is at most one
\* character longer than its limit: 30 for the headline in single-headline
\* mode, 75 in show-all mode, 90 for the description.
C7_PreviewLengthBound ==
  /\ Len(renderHeadline) <= (IF showAllHeadlines THEN 75 ELSE 30) + 1
  /\ Len(renderDescription) <= 90 + 1

\* headline and description both cut hard, at 75 and at 90
C7_Witness ==
  /\ showAllHeadlines
  /\ EndsWithEllipsis(renderHeadline)
  /\ Len(renderHeadline) = 75
  /\ EndsWithEllipsis(renderDescription)
  /\ Len(renderDescription) = 90

\* C8: whenever a headline slot holds more than 30 characters (the form then
\* says it will be truncated), the headline shown does not hold that
\* headline's full text and ends with the ellipsis.
C8_OverLimitHeadlineIsCut ==
  \A i \in 0..2 :
    headlineWarning(i) =>
      /\ ~Contains(renderHeadline, headlines[i + 1])
      /\ EndsWithEllipsis(renderHeadline)

\* C10: an edit of headline slot idx puts the value there and leaves the other
\* headline slots, the descriptions, the paths, the device and the mode flag
\* as they were, and likewise for an edit of a description slot; there are
\* always 3 headline slots and 2 description slots.
C10_EditFrame ==
  /\ Len(headlines) = 3
  /\ Len(descriptions) = 2
  /\ [][ /\ Len(headlines') = 3
         /\ Len(descriptions') = 2
         /\ \A idx \in 0..2, v \in HeadlineInputs :
              onChangeHeadline(idx, v) =>
                /\ headlines'[idx + 1] = v
                /\ \A j \in (1..3) \ {idx + 1} : headlines'[j] = headlines[j]
                /\ descriptions' = descriptions
                /\ <<path1', path2', device'>> = <<path1, path2, device>>
                /\ showAllHeadlines' = showAllHeadlines
         /\ \A idx \in 0..1, v \in DescriptionInputs :
              onChangeDescription(idx, v) =>
                /\ descriptions'[idx + 1] = v
                /\ \A j \in (1..2) \ {idx + 1} :
                     descriptions'[j] = descriptions[j]
                /\ headlines' = headlines
                /\ <<path1', path2', device'>> = <<path1, path2, device>>
                /\ showAllHeadlines' = showAllHeadlines
     ]_vars

\* the example was loaded, then one headline and one description were edited
C10_Witness ==
  /\ headlines[1] = ExampleHeadlines[1]
  /\ headlines[2] = Padded
  /\ headlines[3] = ExampleHeadlines[3]
  /\ descriptions[1] = Blank
  /\ descriptions[2] = ExampleDescriptions[2]
  /\ path1 = ExamplePath1
  /\ path2 = ExamplePath2

====
